---- MODULE Spec2Model ----
(***************************************************************************)
(* The authoritative ping-pong server of src/server/index.ts as a state    *)
(* machine: the shared gameState record, the physics interval, the         *)
(* deferred respawn timers and the socket handlers.                        *)
(*                                                                         *)
(* Units: ball.x, ball.vx and the paddle positions are whole pixels;       *)
(* ball.y and ball.vy are fixed-point numbers with Q steps per pixel (the  *)
(* source uses doubles; only the spin of a paddle hit produces fractions). *)
(* A JavaScript object with string keys is a sequence of [id, v] entries   *)
(* in insertion order, which is the order Object.keys reports.             *)
(*                                                                         *)
(* Time: the physics interval fires every 1000/60 ms and a respawn timeout *)
(* after 1000 ms, so at most RespawnTicks ticks run between a scoring tick *)
(* and its respawn. A pending timeout carries the number of ticks that may *)
(* still run before it; it may fire at any moment (ticks can be late, and  *)
(* outside Playing no tick runs at all) and must fire before a tick once   *)
(* that number is 0.                                                       *)
(*                                                                         *)
(* Init holds the state after construction and one state of a match in     *)
(* progress, 10 : 10 with the ball just re-served, which the server        *)
(* reaches from construction after twenty points (ten ball exits on either *)
(* side); from there a match ends within MaxServes serves.                 *)
(***************************************************************************)
EXTENDS Integers, Sequences, FiniteSets, TLC

\* ---------------------------------------------------------------- constants
WIDTH == 800
HEIGHT == 600
PADDLE_HEIGHT == 100
PADDLE_SPEED == 8
WINNING_SCORE == 11
SERVE_SPEED == 5
RESPAWN_DELAY == 1000
TICK_HZ == 60

\* the value of gameState.winner when it is undefined (socket ids are 1, 2, ...)
Undefined == 0

\* the number of physics ticks that fit into the respawn delay
RespawnTicks == (RESPAWN_DELAY * TICK_HZ) \div 1000

\* ------------------------------------------------------------------- bounds
\* client inputs in one run: connections (each gets a fresh id 1, 2, ...) and
\* paddle inputs (paddleMove, paddlePosition)
MaxInputs == 3
\* serves (calls of resetBall) in one run
MaxServes == 3
\* fixed-point steps per pixel of ball.y and ball.vy
Q == 100

\* Math.random() yields r / Q for a draw r of 0 .. Q - 1
\* vx: Math.random() > 0.5 ? 5 : -5
ServeVxOf(r) == IF 2 * r > Q THEN SERVE_SPEED ELSE -SERVE_SPEED
\* a faulty ServeVyOf: the range is [-4, 4)
ServeVyWide(r) == 8 * r - 4 * Q
\* vy: (Math.random() - 0.5) * 6, in fixed point
ServeVyOf(r) == 6 * r - 3 * Q

\* the draws of Math.random() that resetBall is served with
VxDraws == {0, Q - 1}
VyDraws == {0}
\* the draws behind the serve that the matches of MatchAnyServe start from
SeedDraws == {0, Q \div 2, Q - 1}
ServeVx == {ServeVxOf(r) : r \in VxDraws}
ServeVy == {ServeVyOf(r) : r \in VyDraws}
\* the y values a paddlePosition message carries
PositionInputs == {-40, 0, 640}
Directions == {"up", "down"}
\* the paddle positions of the matches MatchAtEdges starts from
EdgePaddles == {<<PADDLE_SPEED \div 2, HEIGHT - PADDLE_HEIGHT - PADDLE_SPEED \div 2>>,
                <<HEIGHT - PADDLE_HEIGHT - PADDLE_SPEED \div 2, PADDLE_SPEED \div 2>>}

VARIABLES
    sockets,              \* ids of the live socket.io connections
    nextId,               \* the id the next connection gets
    paddles,              \* gameState.paddles
    score,                \* gameState.score
    playersReady,         \* gameState.playersReady
    playerCount,          \* gameState.playerCount
    gameStarted,          \* gameState.gameStarted
    gameEnded,            \* gameState.gameEnded
    winner,               \* gameState.winner
    ball,                 \* gameState.ball
    gameInterval,         \* TRUE iff the physics interval is set
    intervals,            \* setInterval timers of startGame() set and not yet cleared
    ballResetInProgress,  \* the scoring debounce flag
    respawnTimers,        \* pending setTimeout callbacks: physics ticks left
    paddleInputs,         \* paddle inputs received so far
    serves,               \* calls of resetBall so far
    last,                 \* history: the handler that ran last
    from,                 \* history: the phase that handler started in
    entered,              \* history: the last handler called startGame()
    rematch,              \* history: sessions that sent playAgain since the last match ended
    gameWonEmits,         \* history: gameWon events emitted since startGame()
    excTicks,             \* history: ticks that ended with the ball out of bounds since it last was in bounds
    excScored,            \* history: ids whose score went up in those ticks
    excOpp,               \* history: the session opposite the exit side at the first such tick
    staleTimers,          \* history: pending respawns whose match has been stopped or has ended
    published             \* history: the last handler sent gameState to every session

gs == <<paddles, score, playersReady, playerCount, gameStarted, gameEnded, winner, ball>>
hist == <<last, from, entered, rematch, gameWonEmits, excTicks, excScored, excOpp,
          staleTimers, published>>
vars == <<sockets, nextId, gs, gameInterval, intervals, ballResetInProgress, respawnTimers,
          paddleInputs, serves, hist>>

\* connections and paddle inputs so far
InputsUsed == (nextId - 1) + paddleInputs

\* ------------------------------------------------------- JavaScript objects
Keys(o) == [i \in 1..Len(o) |-> o[i].id]
KeySet(o) == {o[i].id : i \in 1..Len(o)}
Has(o, k) == k \in KeySet(o)
Get(o, k) == o[CHOOSE i \in 1..Len(o) : o[i].id = k].v
\* a faulty Put: a new key goes to the front
PutFront(o, k, val) ==
    IF Has(o, k)
    THEN [i \in 1..Len(o) |-> IF o[i].id = k THEN [id |-> k, v |-> val] ELSE o[i]]
    ELSE <<[id |-> k, v |-> val]>> \o o
\* o[k] = val
Put(o, k, val) ==
    IF Has(o, k)
    THEN [i \in 1..Len(o) |-> IF o[i].id = k THEN [id |-> k, v |-> val] ELSE o[i]]
    ELSE Append(o, [id |-> k, v |-> val])
\* a faulty Delete: the entry stays
DeleteNothing(o, k) == o
\* a faulty Delete: the entries after k go as well
DeleteFrom(o, k) ==
    SubSeq(o, 1, (CHOOSE i \in 1..Len(o) : o[i].id = k) - 1)
\* delete o[k]
Delete(o, k) == SelectSeq(o, LAMBDA e : e.id # k)
SetAll(o, val) == [i \in 1..Len(o) |-> [id |-> o[i].id, v |-> val]]
\* playerIds[i] of JavaScript (0-based), undefined past the end
At(ks, i) == IF i + 1 <= Len(ks) THEN ks[i + 1] ELSE Undefined

\* ------------------------------------------------------------------ helpers
Max(a, b) == IF a >= b THEN a ELSE b
Min(a, b) == IF a <= b THEN a ELSE b

Centre == [x |-> WIDTH \div 2, y |-> (HEIGHT \div 2) * Q, vx |-> 0, vy |-> 0]

\* resetBall(): the ball it leaves, for the two random draws
ResetBall(vx, vy) == [x |-> WIDTH \div 2, y |-> (HEIGHT \div 2) * Q, vx |-> vx, vy |-> vy]

OutOfBounds(b) == b.x < -10 \/ b.x > WIDTH + 10

\* ball.x += ball.vx; ball.y += ball.vy
Integrate(b) == [b EXCEPT !.x = b.x + b.vx, !.y = b.y + b.vy]

\* a faulty WallBounce: the ball loses half its vertical speed
WallBounceDamped(b) ==
    IF b.y <= 10 * Q \/ b.y >= (HEIGHT - 10) * Q THEN [b EXCEPT !.vy = -(b.vy \div 2)] ELSE b

\* bounce off the top and bottom walls
WallBounce(b) ==
    IF b.y <= 10 * Q \/ b.y >= (HEIGHT - 10) * Q THEN [b EXCEPT !.vy = -b.vy] ELSE b

\* one iteration of the paddle loop; index is the 0-based forEach index
PaddleCollides(b, index, paddleY) ==
    LET isLeft == index = 0
        paddleX == IF isLeft THEN 20 ELSE WIDTH - 30
    IN  /\ \/ (isLeft /\ b.x - 10 <= paddleX + 10 /\ b.x > paddleX)
           \/ (~isLeft /\ b.x + 10 >= paddleX /\ b.x < paddleX + 10)
        /\ b.y >= (paddleY - 10) * Q
        /\ b.y <= (paddleY + PADDLE_HEIGHT + 10) * Q

\* hitPos = (ball.y - paddleY) / PADDLE_HEIGHT; vy = (hitPos - 0.5) * 8
Spin(b, paddleY) ==
    ((b.y - paddleY * Q - (PADDLE_HEIGHT \div 2) * Q) * 8) \div PADDLE_HEIGHT

\* a faulty PaddleStep: the paddle stops the ball
PaddleStepAbsorbing(b, index, paddleY) ==
    IF PaddleCollides(b, index, paddleY)
    THEN [b EXCEPT !.vx = 0, !.vy = Spin(b, paddleY)]
    ELSE b

PaddleStep(b, index, paddleY) ==
    IF PaddleCollides(b, index, paddleY)
    THEN [b EXCEPT !.vx = -b.vx, !.vy = Spin(b, paddleY)]
    ELSE b

RECURSIVE PaddleLoop(_, _, _)
PaddleLoop(b, ps, index) ==
    IF index >= Len(ps) THEN b
    ELSE PaddleLoop(PaddleStep(b, index, ps[index + 1].v), ps, index + 1)

\* a faulty Scores: the debounce flag is not consulted
ScoresUndebounced(b, inProgress) == OutOfBounds(b)

\* the scoring branch is taken
Scores(b, inProgress) == OutOfBounds(b) /\ ~inProgress

\* a faulty Scorer: the point goes to the side the ball left by
ScorerSameSide(b, ks) == IF b.x < -10 THEN At(ks, 0) ELSE At(ks, 1)

\* const scorer = ball.x < -10 ? playerIds[1] : playerIds[0]
Scorer(b, ks) == IF b.x < -10 THEN At(ks, 1) ELSE At(ks, 0)

\* a faulty Credit: two points at once
CreditTwice(sc, scorer) == Put(sc, scorer, Get(sc, scorer) + 2)

\* gameState.score[scorer]++
Credit(sc, scorer) == Put(sc, scorer, Get(sc, scorer) + 1)

\* a faulty FirstWinner: > instead of >=
RECURSIVE FirstWinnerAbove(_, _)
FirstWinnerAbove(sc, i) ==
    IF i > Len(sc) THEN Undefined
    ELSE IF sc[i].v > WINNING_SCORE THEN sc[i].id
    ELSE FirstWinnerAbove(sc, i + 1)

\* checkWinner(): the first key of score whose value reached WINNING_SCORE
RECURSIVE FirstWinner(_, _)
FirstWinner(sc, i) ==
    IF i > Len(sc) THEN Undefined
    ELSE IF sc[i].v >= WINNING_SCORE THEN sc[i].id
    ELSE FirstWinner(sc, i + 1)

ReadyCount(pr) == Cardinality({i \in 1..Len(pr) : pr[i].v})

\* a faulty CanStart: three ready sessions are needed
CanStartOfThree(pr, started, ended) ==
    /\ Len(Keys(pr)) >= 2
    /\ ReadyCount(pr) >= 3
    /\ ~started
    /\ ~ended

\* a faulty CanStart: one ready session is enough
CanStartAlone(pr, started, ended) ==
    /\ Len(Keys(pr)) >= 1
    /\ ReadyCount(pr) >= 1
    /\ ~started
    /\ ~ended

\* the condition under which checkGameStart() calls startGame()
CanStart(pr, started, ended) ==
    /\ Len(Keys(pr)) >= 2
    /\ ReadyCount(pr) >= 2
    /\ ~started
    /\ ~ended

\* the ids whose score is higher in new than in old (same keys)
RECURSIVE Gained(_, _, _)
Gained(old, new, i) ==
    IF i > Len(new) THEN <<>>
    ELSE (IF Has(old, new[i].id) /\ new[i].v > Get(old, new[i].id)
          THEN <<new[i].id>> ELSE <<>>) \o Gained(old, new, i + 1)

\* a faulty ClearInterval: the timer is left running
LeakInterval(handle, n) == n

\* if (gameInterval) clearInterval(gameInterval): the timers still set
ClearInterval(handle, n) == IF handle THEN n - 1 ELSE n

\* --------------------------------------------------------------------- Init
Constructed ==
    /\ sockets = {}
    /\ nextId = 1
    /\ paddles = <<>>
    /\ score = <<>>
    /\ playersReady = <<>>
    /\ playerCount = 0
    /\ gameStarted = FALSE
    /\ gameEnded = FALSE
    /\ winner = Undefined
    /\ ball = Centre
    /\ gameInterval = FALSE
    /\ intervals = 0
    /\ ballResetInProgress = FALSE
    /\ respawnTimers = <<>>
    /\ paddleInputs = 0
    /\ serves = 0
    /\ last = "init"
    /\ from = "Lobby"
    /\ entered = FALSE
    /\ rematch = {}
    /\ gameWonEmits = 0
    /\ excTicks = 0
    /\ excScored = <<>>
    /\ excOpp = Undefined
    /\ staleTimers = 0
    /\ published = FALSE

\* a match at 10 : 10 between the first two of the sessions 1 .. Len(ys), whose
\* paddles are at ys, the ball just re-served with a vy of vys
MatchServed(ys, vys) ==
    /\ sockets = 1..Len(ys)
    /\ nextId = Len(ys) + 1
    /\ paddles = [i \in 1..Len(ys) |-> [id |-> i, v |-> ys[i]]]
    /\ score = [i \in 1..Len(ys) |->
                   [id |-> i, v |-> IF i <= 2 THEN WINNING_SCORE - 1 ELSE 0]]
    /\ playersReady = [i \in 1..Len(ys) |-> [id |-> i, v |-> i <= 2]]
    /\ playerCount = Len(ys)
    /\ gameStarted = TRUE
    /\ gameEnded = FALSE
    /\ winner = Undefined
    /\ \E vx \in ServeVx, vy \in vys : ball = ResetBall(vx, vy)
    /\ gameInterval = TRUE
    /\ intervals = 1
    /\ ballResetInProgress = FALSE
    /\ respawnTimers = <<>>
    /\ paddleInputs = 0
    /\ serves = 0
    /\ last = "respawn"
    /\ from = "Playing"
    /\ entered = FALSE
    /\ rematch = {}
    /\ gameWonEmits = 0
    /\ excTicks = 0
    /\ excScored = <<>>
    /\ excOpp = Undefined
    /\ staleTimers = 0
    /\ published = FALSE

MatchAt(ys) == MatchServed(ys, ServeVy)

\* that match with both paddles where the connection handler put them
MatchPoint ==
    MatchAt(<<HEIGHT \div 2 - PADDLE_HEIGHT \div 2, HEIGHT \div 2 - PADDLE_HEIGHT \div 2>>)

\* that match with the paddles half a step from the edges of the board
\* (paddlePosition stores any position of the range while a match runs)
MatchAtEdges == \E ys \in EdgePaddles : MatchAt(ys)

\* that match with the ball served upward, level and downward
MatchAnyServe ==
    MatchServed(<<HEIGHT \div 2 - PADDLE_HEIGHT \div 2, HEIGHT \div 2 - PADDLE_HEIGHT \div 2>>,
                {ServeVyOf(r) : r \in SeedDraws})

\* the lifecycle phase
Phase == IF gameStarted THEN "Playing" ELSE IF gameEnded THEN "Ended" ELSE "Lobby"

\* the history of the handler op
Ran(op) == last' = op /\ from' = Phase

\* the excursion history after a step that leaves the ball as it is
ExcKeep == UNCHANGED <<excTicks, excScored, excOpp>>
\* the excursion history after a step that puts the ball back to the centre
ExcClear == excTicks' = 0 /\ excScored' = <<>> /\ excOpp' = Undefined

\* ------------------------------------------------------------------ actions
\* a faulty Moved: no clamping at the edges
MovedFreely(currentY, direction) ==
    IF direction = "up" THEN currentY - PADDLE_SPEED
    ELSE IF direction = "down" THEN currentY + PADDLE_SPEED
    ELSE currentY

\* a faulty ZeroScores: the scores are kept
KeepScores(sc) == sc

\* Object.keys(gameState.score).forEach((id) => { gameState.score[id] = 0; })
ZeroScores(sc) == SetAll(sc, 0)

\* function startGame()
StartGame(vx, vy) ==
    /\ serves < MaxServes
    /\ serves' = serves + 1
    /\ gameEnded' = FALSE
    /\ winner' = Undefined
    /\ score' = ZeroScores(score)
    /\ ball' = ResetBall(vx, vy)
    /\ ballResetInProgress' = FALSE
    /\ gameStarted' = TRUE
    /\ gameInterval' = TRUE
    /\ intervals' = ClearInterval(gameInterval, intervals) + 1
    /\ gameWonEmits' = 0
    /\ entered' = TRUE
    /\ rematch' = {}
    /\ ExcClear

\* io.on("connection")
Connect ==
    /\ InputsUsed < MaxInputs
    /\ sockets' = sockets \cup {nextId}
    /\ nextId' = nextId + 1
    /\ paddles' = Put(paddles, nextId, HEIGHT \div 2 - PADDLE_HEIGHT \div 2)
    /\ score' = Put(score, nextId, 0)
    /\ playersReady' = Put(playersReady, nextId, FALSE)
    /\ playerCount' = playerCount + 1
    /\ Ran("connection")
    /\ entered' = FALSE
    /\ UNCHANGED <<rematch, gameStarted, gameEnded, winner, ball, gameInterval, intervals,
                   ballResetInProgress, respawnTimers, paddleInputs, serves,
                   gameWonEmits, excTicks, excScored, excOpp, staleTimers>>
    /\ published' = FALSE

\* function checkGameStart(), with the ready flags pr already written and the
\* flags started/ended as the handler left them; shared by startGame and playAgain
CheckGameStart(pr, ended, win, asked) ==
    IF CanStart(pr, gameStarted, ended)
    THEN \E vx \in ServeVx, vy \in ServeVy : StartGame(vx, vy)
    ELSE /\ gameEnded' = ended
         /\ winner' = win
         /\ rematch' = asked
         /\ UNCHANGED <<score, gameStarted, ball, gameInterval, intervals,
                        ballResetInProgress, gameWonEmits, serves>>
         /\ entered' = FALSE
         /\ ExcKeep

\* socket.on("startGame")
StartGameReq(s) ==
    /\ s \in sockets
    /\ playersReady' = Put(playersReady, s, TRUE)
    /\ CheckGameStart(Put(playersReady, s, TRUE), gameEnded, winner, rematch)
    /\ Ran("startGame")
    /\ UNCHANGED <<sockets, nextId, paddles, playerCount, respawnTimers, paddleInputs,
                   staleTimers>>
    /\ published' = FALSE

\* socket.on("playAgain")
PlayAgain(s) ==
    /\ s \in sockets
    /\ playersReady' = Put(playersReady, s, TRUE)
    /\ CheckGameStart(Put(playersReady, s, TRUE), FALSE,
                      IF gameEnded THEN Undefined ELSE winner,
                      IF gameStarted THEN rematch ELSE rematch \cup {s})
    /\ Ran("playAgain")
    /\ UNCHANGED <<sockets, nextId, paddles, playerCount, respawnTimers, paddleInputs,
                   staleTimers>>
    /\ published' = FALSE

\* a faulty StopGame: the winner is kept
StopGameKeepsWinner ==
    /\ gameStarted' = FALSE
    /\ gameEnded' = FALSE
    /\ winner' = winner
    /\ ball' = Centre
    /\ ballResetInProgress' = FALSE
    /\ gameInterval' = FALSE
    /\ intervals' = ClearInterval(gameInterval, intervals)
    /\ ExcClear

\* stopGame()
StopGame ==
    /\ gameStarted' = FALSE
    /\ gameEnded' = FALSE
    /\ winner' = Undefined
    /\ ball' = Centre
    /\ ballResetInProgress' = FALSE
    /\ gameInterval' = FALSE
    /\ intervals' = ClearInterval(gameInterval, intervals)
    /\ ExcClear

\* a faulty TooFew: the game stops only when nobody is left
TooFewNone(count) == count < 1

\* the test of the disconnect handler that stops the game
TooFew(count) == count < 2

\* socket.on("disconnect")
Disconnect(s) ==
    /\ s \in sockets
    /\ sockets' = sockets \ {s}
    /\ paddles' = Delete(paddles, s)
    /\ score' = Delete(score, s)
    /\ playerCount' = playerCount - 1
    /\ IF TooFew(playerCount - 1)
       THEN /\ StopGame
            /\ playersReady' = SetAll(Delete(playersReady, s), FALSE)
            /\ staleTimers' = Len(respawnTimers)
       ELSE /\ playersReady' = Delete(playersReady, s)
            /\ UNCHANGED <<gameStarted, gameEnded, winner, ball,
                           ballResetInProgress, gameInterval, intervals, staleTimers>>
            /\ ExcKeep
    /\ Ran("disconnect")
    /\ entered' = FALSE
    /\ rematch' = rematch \ {s}
    /\ published' = TRUE
    /\ UNCHANGED <<nextId, respawnTimers, paddleInputs, serves, gameWonEmits>>

\* the position paddleMove stores
Moved(currentY, direction) ==
    IF direction = "up" THEN Max(0, currentY - PADDLE_SPEED)
    ELSE IF direction = "down" THEN Min(HEIGHT - PADDLE_HEIGHT, currentY + PADDLE_SPEED)
    ELSE currentY

\* the position paddlePosition stores
Bounded(y) == Max(0, Min(HEIGHT - PADDLE_HEIGHT, y))

PaddleRest ==
    /\ paddleInputs' = paddleInputs + 1
    /\ entered' = FALSE
    /\ UNCHANGED <<rematch, sockets, nextId, score, playersReady, playerCount, gameStarted,
                   gameEnded, winner, ball, gameInterval, intervals, ballResetInProgress,
                   respawnTimers, serves, gameWonEmits, excTicks, excScored, excOpp,
                   staleTimers>>
    /\ published' = FALSE

\* socket.on("paddleMove")
PaddleMove(s, direction) ==
    /\ s \in sockets
    /\ InputsUsed < MaxInputs
    /\ paddles' = IF ~gameStarted THEN paddles
                  ELSE Put(paddles, s, Moved(Get(paddles, s), direction))
    /\ Ran("paddleMove")
    /\ PaddleRest

\* a faulty PaddlePosition: the position is stored in every phase
PaddlePositionAlways(s, y) ==
    /\ s \in sockets
    /\ InputsUsed < MaxInputs
    /\ paddles' = Put(paddles, s, Bounded(y))
    /\ Ran("paddlePosition")
    /\ PaddleRest

\* socket.on("paddlePosition")
PaddlePosition(s, y) ==
    /\ s \in sockets
    /\ InputsUsed < MaxInputs
    /\ paddles' = IF ~gameStarted THEN paddles ELSE Put(paddles, s, Bounded(y))
    /\ Ran("paddlePosition")
    /\ PaddleRest

\* every pending timer is one physics tick closer
Elapse(ts) == [i \in 1..Len(ts) |-> ts[i] - 1]

\* a faulty Scheduled: no respawn is set
ScheduledNever(ts, takes, won) == Elapse(ts)

\* the pending timers after a tick: setTimeout is reached by a scoring tick that
\* has not ended the match
Scheduled(ts, takes, won) ==
    IF takes /\ ~won THEN Append(Elapse(ts), RespawnTicks) ELSE Elapse(ts)

\* the session opposite the side the ball left by: the right slot (index 1)
\* for an exit on the left, the left slot (index 0) for an exit on the right
OppositeSlot(b, ks) == IF b.x > WIDTH + 10 THEN At(ks, 0) ELSE At(ks, 1)

\* the callback of the physics interval set by startGame()
Tick ==
    /\ intervals > 0
    /\ \A i \in 1..Len(respawnTimers) : respawnTimers[i] > 0
    /\ Ran("tick")
    /\ entered' = FALSE
    /\ UNCHANGED <<sockets, nextId, paddles, playersReady, playerCount, paddleInputs,
                   serves>>
    /\ IF ~gameStarted \/ gameEnded
       THEN /\ respawnTimers' = Elapse(respawnTimers)
            /\ UNCHANGED <<rematch, score, gameStarted, gameEnded, winner, ball, gameInterval,
                           intervals, ballResetInProgress, gameWonEmits, staleTimers>>
            /\ published' = FALSE
            /\ ExcKeep
       ELSE LET b == PaddleLoop(WallBounce(Integrate(ball)), paddles, 0)
                takes == Scores(b, ballResetInProgress)
                scorer == Scorer(b, Keys(paddles))
                credited == takes /\ scorer # Undefined /\ Has(score, scorer)
                sc == IF credited THEN Credit(score, scorer) ELSE score
                w == IF credited THEN FirstWinner(sc, 1) ELSE Undefined
                won == w # Undefined
            IN  /\ ball' = b
                /\ score' = sc
                /\ ballResetInProgress' = (ballResetInProgress \/ takes)
                /\ gameEnded' = won
                /\ gameStarted' = ~won
                /\ winner' = IF won THEN w ELSE winner
                /\ gameInterval' = ~won
                /\ intervals' = IF won THEN ClearInterval(gameInterval, intervals)
                                 ELSE intervals
                /\ staleTimers' = IF won THEN Len(respawnTimers) ELSE staleTimers
                /\ published' = ~won
                /\ gameWonEmits' = IF won THEN gameWonEmits + 1 ELSE gameWonEmits
                /\ rematch' = IF won THEN {} ELSE rematch
                /\ respawnTimers' = Scheduled(respawnTimers, takes, won)
                /\ IF OutOfBounds(b)
                   THEN /\ excTicks' = excTicks + 1
                        /\ excScored' = excScored \o Gained(score, sc, 1)
                        /\ excOpp' = IF excTicks = 0
                                     THEN OppositeSlot(b, Keys(paddles)) ELSE excOpp
                   ELSE ExcClear

\* the callback of the setTimeout set by a scoring tick
Respawn ==
    /\ Len(respawnTimers) > 0
    /\ respawnTimers' = Tail(respawnTimers)
    /\ staleTimers' = Max(0, staleTimers - 1)
    /\ published' = FALSE
    /\ IF ~gameEnded
       THEN /\ serves < MaxServes
            /\ serves' = serves + 1
            /\ \E vx \in ServeVx, vy \in ServeVy : ball' = ResetBall(vx, vy)
            /\ ballResetInProgress' = FALSE
            /\ ExcClear
       ELSE /\ UNCHANGED <<ball, ballResetInProgress, serves>>
            /\ ExcKeep
    /\ Ran("respawn")
    /\ entered' = FALSE
    /\ UNCHANGED <<rematch, sockets, nextId, paddles, score, playersReady, playerCount,
                   gameStarted, gameEnded, winner, gameInterval, intervals, paddleInputs,
                   gameWonEmits>>

Next ==
    \/ Connect
    \/ \E s \in sockets : StartGameReq(s)
    \/ \E s \in sockets : PlayAgain(s)
    \/ \E s \in sockets : Disconnect(s)
    \/ \E s \in sockets, d \in Directions : PaddleMove(s, d)
    \/ \E s \in sockets, y \in PositionInputs : PaddlePosition(s, y)
    \/ Tick
    \/ Respawn

Init == Constructed \/ MatchPoint

Spec == Init /\ [][Next]_vars

\* the server with a timer service that runs every callback that is due
FairSpec == Spec /\ WF_vars(Respawn)

\* the server from a match whose ball was served with any of the seed draws
SpecServes == MatchAnyServe /\ [][Next]_vars

\* the server from a match whose paddles are next to the edges
SpecEdges == MatchAtEdges /\ [][Next]_vars

\* ------------------------------------------------------------------- claims
\* the earliest-joined session of a set of live sessions (ids are handed out in join order)
Earliest(S) == CHOOSE m \in S : \A o \in S : m <= o

\* C1: while the ball is out of bounds, exactly one point has been scored since
\* it left, by the session that was opposite the exit side when it left, and the
\* debounce flag is set.
ExactlyOncePerExcursion ==
    OutOfBounds(ball) =>
        /\ excTicks >= 1
        /\ excOpp # Undefined
        /\ excScored = <<excOpp>>
        /\ ballResetInProgress

\* C1 witness: a match in progress whose ball has been out of bounds for three ticks
ExcursionOfSeveralTicks == gameStarted /\ OutOfBounds(ball) /\ excTicks >= 3

\* C2: the tick on which a score reaches WINNING_SCORE ends the match: Ended,
\* winner recorded, interval cleared, gameWon emitted once; gameWon is never
\* emitted twice for a match, and no tick changes ball or score outside Playing.
WinDetection ==
    [][ /\ (last' = "tick" /\ \E i \in 1..Len(score') :
                score'[i].v >= WINNING_SCORE /\ score'[i].v # score[i].v)
            => /\ gameEnded' /\ ~gameStarted' /\ ~gameInterval'
               /\ winner' # Undefined
               /\ Has(score', winner') /\ Get(score', winner') >= WINNING_SCORE
               /\ gameWonEmits' = 1
        /\ gameEnded' => (~gameStarted' /\ ~gameInterval' /\ gameWonEmits' = 1)
        /\ gameStarted' => gameWonEmits' = 0
        /\ (last' = "tick" /\ ~gameStarted) => (ball' = ball /\ score' = score)
      ]_vars

\* C2 witness: the state the winning tick leaves
MatchJustWon == last = "tick" /\ gameEnded /\ winner # Undefined

\* C3: a playAgain that takes the match out of Ended comes only when every
\* connected session has sent playAgain since the match ended.
RematchNeedsEveryone ==
    [][\A s \in sockets :
          (gameEnded /\ PlayAgain(s) /\ ~gameEnded') => sockets \subseteq rematch \cup {s}
      ]_vars

\* C4: startGame() is called from checkGameStart only with at least two sessions
\* connected, the sessions of slot 0 and slot 1 both ready, and the phase Lobby.
StartNeedsBothSlotsReady ==
    [][entered' =>
          /\ Cardinality(sockets) >= 2
          /\ Len(playersReady') >= 2
          /\ playersReady'[1].v /\ playersReady'[2].v
          /\ ~gameStarted
          /\ (gameEnded => last' = "playAgain")
      ]_vars

\* C5: right after startGame() every connected session has score 0, winner and
\* Ended are cleared, the debounce flag is false and the ball is served from
\* the centre with a non-zero velocity.
FreshMatchOnEntry ==
    entered =>
        /\ gameStarted /\ ~gameEnded /\ winner = Undefined
        /\ KeySet(score) = sockets
        /\ \A i \in 1..Len(score) : score[i].v = 0
        /\ ~ballResetInProgress
        /\ ball.x = WIDTH \div 2 /\ ball.y = (HEIGHT \div 2) * Q
        /\ ball.vx # 0

\* C5 witness: a rematch has just started after a won match
RematchJustStarted == entered /\ last = "playAgain" /\ from = "Ended"

\* C6: right after a disconnect that leaves fewer than two sessions the phase is
\* Lobby, the interval is cleared, all ready flags and the debounce flag are
\* false and the ball rests at the centre.
ForcedReset ==
    (last = "disconnect" /\ Cardinality(sockets) < 2) =>
        /\ ~gameStarted /\ ~gameEnded /\ winner = Undefined
        /\ ~gameInterval
        /\ \A i \in 1..Len(playersReady) : ~playersReady[i].v
        /\ ~ballResetInProgress
        /\ ball = Centre

\* C6 witness: the last but one session left a match that had ended
ResetFromEnded == last = "disconnect" /\ from = "Ended" /\ Cardinality(sockets) = 1

\* C7: with fewer than two sessions connected the phase is Lobby and the
\* interval is not set.
LobbyBelowTwo ==
    Cardinality(sockets) < 2 => (~gameStarted /\ ~gameEnded /\ ~gameInterval)

\* C7 witness: one session is left of a match, and a respawn of that match fired
AloneAfterMatch == Cardinality(sockets) = 1 /\ last = "respawn" /\ serves >= 2

\* C8: only two sessions are bound at any time: the match state holds at most
\* two paddle, score and ready entries.
OnlyTwoSlots == Len(paddles) <= 2 /\ Len(score) <= 2 /\ Len(playersReady) <= 2

\* C9: slot 0 is the earliest-joined connected session, slot 1 the second.
SlotsInJoinOrder ==
    /\ KeySet(paddles) = sockets
    /\ sockets # {} => At(Keys(paddles), 0) = Earliest(sockets)
    /\ Cardinality(sockets) >= 2 =>
          At(Keys(paddles), 1) = Earliest(sockets \ {Earliest(sockets)})

\* C9 witness: the first session has left and the later two hold the slots
SlotsShifted == Keys(paddles) = <<2, 3>> /\ last = "disconnect"

\* C10: a disconnect removes the entries of the leaving session only, lowers
\* playerCount by one, and leaves every other paddle and score as it was.
DisconnectFrame ==
    [][last' = "disconnect" =>
          \E s \in sockets :
              /\ sockets' = sockets \ {s}
              /\ KeySet(paddles') = KeySet(paddles) \ {s}
              /\ KeySet(score') = KeySet(score) \ {s}
              /\ KeySet(playersReady') = KeySet(playersReady) \ {s}
              /\ playerCount' = playerCount - 1
              /\ \A o \in sockets \ {s} :
                    /\ Get(paddles', o) = Get(paddles, o)
                    /\ Get(score', o) = Get(score, o)
      ]_vars

\* C10 witness: a session left and another one still holds points
LeftWithPoints == last = "disconnect" /\ \E i \in 1..Len(score) : score[i].v > 0

\* C11: every stored paddle position lies in [0, HEIGHT - PADDLE_HEIGHT],
\* whatever paddleMove and paddlePosition inputs arrive.
PaddlesInRange ==
    \A i \in 1..Len(paddles) : paddles[i].v >= 0 /\ paddles[i].v <= HEIGHT - PADDLE_HEIGHT

\* C11 witness: a paddleMove during a match has taken a paddle half a step
\* from an edge of the board to that edge
MovedToEdge ==
    /\ last = "paddleMove" /\ from = "Playing"
    /\ \E i \in 1..Len(paddles) : paddles[i].v \in {0, HEIGHT - PADDLE_HEIGHT}

\* C12: a paddleMove or paddlePosition received outside Playing changes nothing
\* of the match state; during Playing it changes the sender's paddle at most.
PaddleInputFrame ==
    [][last' \in {"paddleMove", "paddlePosition"} =>
          /\ UNCHANGED <<sockets, score, playersReady, playerCount, gameStarted, gameEnded,
                         winner, ball, gameInterval, intervals, ballResetInProgress,
                         respawnTimers>>
          /\ Keys(paddles') = Keys(paddles)
          /\ ~gameStarted => paddles' = paddles
          /\ gameStarted =>
                \E s \in sockets :
                    \A o \in sockets \ {s} : Get(paddles', o) = Get(paddles, o)
      ]_vars

\* C12 witness: a paddle input arrived after the match had ended, with the
\* paddles still where the connection handler put them
IgnoredWhenEnded ==
    /\ last \in {"paddleMove", "paddlePosition"} /\ from = "Ended"
    /\ \A i \in 1..Len(paddles) : paddles[i].v = HEIGHT \div 2 - PADDLE_HEIGHT \div 2

\* C13: a scoring tick gives one point to the slot opposite the exit side (slot
\* 1 when the ball left on the left, slot 0 when it left on the right) and
\* changes no other score.
PointToOppositeSlot ==
    [][(last' = "tick" /\ gameStarted /\ OutOfBounds(ball') /\ ~ballResetInProgress) =>
          LET gets == IF ball'.x > WIDTH + 10 THEN paddles[1].id ELSE paddles[2].id
          IN  /\ KeySet(score') = KeySet(score)
              /\ Get(score', gets) = Get(score, gets) + 1
              /\ \A o \in KeySet(score) \ {gets} : Get(score', o) = Get(score, o)
      ]_vars

\* C13 witness: with three sessions connected the ball has just left on the
\* left and slot 1 got the point
PointAfterLeftExit ==
    /\ last = "tick" /\ ball.x < -10 /\ excTicks = 1
    /\ Len(paddles) = 3
    /\ excScored = <<paddles[2].id>>

\* C14: no score ever exceeds WINNING_SCORE and at most one connected session
\* holds WINNING_SCORE; the score of a session changes only by +1 on a scoring
\* tick of a running match, or to 0 when startGame() begins a match.
SingleWinner ==
    [][/\ \A i \in 1..Len(score') : score'[i].v <= WINNING_SCORE
       /\ Cardinality({i \in 1..Len(score') : score'[i].v = WINNING_SCORE}) <= 1
       /\ \A o \in KeySet(score) \cap KeySet(score') :
             Get(score', o) # Get(score, o) =>
                 \/ entered' /\ Get(score', o) = 0
                 \/ /\ last' = "tick" /\ gameStarted /\ OutOfBounds(ball')
                    /\ Get(score', o) = Get(score, o) + 1
      ]_vars

\* C14 witness: a match has ended with one session at WINNING_SCORE and the
\* other one point short of it
WonByOnePoint ==
    /\ gameEnded /\ last = "tick"
    /\ \E i, j \in 1..Len(score) :
          score[i].v = WINNING_SCORE /\ score[j].v = WINNING_SCORE - 1

\* C15: a startGame or playAgain request of a session whose ready flag is
\* already set changes neither the phase nor scores, ball, ready flags and
\* player count.
ReadyIsIdempotent ==
    [][\A s \in sockets :
          (Get(playersReady, s) /\ (StartGameReq(s) \/ PlayAgain(s))) =>
              /\ gameStarted' = gameStarted /\ gameEnded' = gameEnded
              /\ UNCHANGED <<score, ball, playersReady, playerCount>>
      ]_vars

\* C16: the physics interval is set exactly while the phase is Playing, never
\* more than one interval timer is running, and a tick moves the ball only
\* when the phase is Playing.
PhysicsOnlyInPlaying ==
    [][/\ gameInterval' <=> gameStarted'
       /\ intervals' = (IF gameStarted' THEN 1 ELSE 0)
       /\ (last' = "tick" /\ (ball'.x # ball.x \/ ball'.y # ball.y)) => gameStarted
      ]_vars

\* C16 witness: the interval was cleared by a win and set again by a rematch
IntervalSetAgain ==
    entered /\ from = "Ended" /\ gameInterval /\ intervals = 1 /\ serves >= 1

\* C17: a respawn whose match was stopped or has ended before it fires changes
\* neither the ball nor the debounce flag.
StaleRespawnIsNoOp ==
    [][(last' = "respawn" /\ staleTimers > 0) => UNCHANGED <<ball, ballResetInProgress>>
      ]_vars

\* C18: a respawn that fires while the phase is Ended changes neither the ball
\* nor the debounce flag.
RespawnInEndedIsNoOp ==
    [][(last' = "respawn" /\ gameEnded) => UNCHANGED <<ball, ballResetInProgress>>]_vars

\* C18: no respawn is pending while the phase is Ended
NoRespawnPendingInEnded == gameEnded => respawnTimers = <<>>

\* C19: while the phase is Ended the ball has no velocity.
BallAtRestWhenEnded ==
    (gameEnded /\ ~gameStarted) => (ball.vx = 0 /\ ball.vy = 0)

\* the left paddle reflects a ball with x in (20, 40], a right one with x in [760, 780)
InLeftZone(b) == b.x - 10 <= 30 /\ b.x > 20
InRightZone(b) == b.x + 10 >= WIDTH - 30 /\ b.x < WIDTH - 20

\* C20: a tick never turns a ball that moves away from a paddle, inside the
\* collision zone of that paddle, back toward it.
ReflectsOnlyOncomingBall ==
    [][(last' = "tick" /\ gameStarted) =>
          /\ ~(InLeftZone(ball') /\ ball.vx > 0 /\ ball'.vx < 0)
          /\ ~(InRightZone(ball') /\ ball.vx < 0 /\ ball'.vx > 0)
      ]_vars

\* C21: while a match runs with the debounce flag set a respawn is pending; the
\* tick that scores leaves the flag set and the ball out of bounds (no serve in
\* that tick); and the ball is eventually re-served at the centre with the
\* flag cleared unless the match leaves Playing first (within the serves of a run).
RespawnFollowsPoint ==
    /\ []((gameStarted /\ ballResetInProgress) => Len(respawnTimers) > 0)
    /\ [][(last' = "tick" /\ gameStarted /\ score' # score) =>
             (ballResetInProgress' /\ OutOfBounds(ball'))]_vars
    /\ (gameStarted /\ ballResetInProgress /\ serves < MaxServes)
          ~> \/ ~gameStarted
             \/ /\ last = "respawn" /\ ~ballResetInProgress
                /\ ball.x = WIDTH \div 2 /\ ball.y = (HEIGHT \div 2) * Q

\* C21 witness: the match goes on after a point, the ball just re-served
ReservedAfterPoint ==
    /\ last = "respawn" /\ from = "Playing" /\ gameStarted /\ ~ballResetInProgress
    /\ ball.x = WIDTH \div 2
    /\ \E i \in 1..Len(score) : score[i].v = 1

\* C22: every serve (startGame() or a respawn that calls resetBall) leaves the
\* ball at the centre of the board with vx = 5 or -5, vy within [-3, 3], and
\* the debounce flag false.
ServeFromCentre ==
    (entered \/ (last = "respawn" /\ ~gameEnded)) =>
        /\ ball.x = WIDTH \div 2 /\ ball.y = (HEIGHT \div 2) * Q
        /\ ball.vx \in {SERVE_SPEED, -SERVE_SPEED}
        /\ ball.vy >= -3 * Q /\ ball.vy <= 3 * Q
        /\ ~ballResetInProgress

\* C22 witness: a respawn of this run has just served the ball in a running match
ServedByRespawn ==
    /\ last = "respawn" /\ serves >= 1 /\ gameStarted
    /\ ball.x = WIDTH \div 2 /\ ball.vx # 0

\* C23: every tick that runs while the phase is Playing sends a gameState
\* snapshot to every session before it returns, the winning tick included.
TickPublishes ==
    [][(last' = "tick" /\ gameStarted) => published']_vars

\* C24: a tick whose integration takes the ball to y <= 10 or y >= HEIGHT - 10,
\* outside the collision zones of the paddles, flips the sign of vy and leaves
\* the magnitude of vy and vx as they were.
WallKeepsSpeed ==
    [][(/\ last' = "tick" /\ gameStarted
        /\ (ball'.y <= 10 * Q \/ ball'.y >= (HEIGHT - 10) * Q)
        /\ ~InLeftZone(ball') /\ ~InRightZone(ball')) =>
          /\ ball'.vy = -ball.vy
          /\ ball'.vx = ball.vx
          /\ ball'.x = ball.x + ball.vx /\ ball'.y = ball.y + ball.vy
      ]_vars

\* C24 witness: the ball has just bounced off the top wall
BouncedOffTop ==
    last = "tick" /\ from = "Playing" /\ ball.y <= 10 * Q /\ ball.vy > 0

\* C25: paddles, score and playersReady have the same keys, the connected
\* sessions, once each, and playerCount is the number of connected sessions.
EntriesAreSessions ==
    /\ KeySet(paddles) = sockets /\ Len(paddles) = Cardinality(sockets)
    /\ KeySet(score) = sockets /\ Len(score) = Cardinality(sockets)
    /\ KeySet(playersReady) = sockets /\ Len(playersReady) = Cardinality(sockets)
    /\ playerCount = Cardinality(sockets)
    /\ playerCount >= 0

\* C25 witness: three sessions have connected and one of the first two has left
LeftOfThree ==
    last = "disconnect" /\ nextId = 4 /\ Cardinality(sockets) = 2 /\ 3 \in sockets

\* C26: gameStarted and gameEnded are never both true and winner is defined
\* exactly when gameEnded is true.
PhasesExclusive ==
    /\ ~(gameStarted /\ gameEnded)
    /\ (winner # Undefined) <=> gameEnded

\* C26 witness: a playAgain has taken the match from Ended to Lobby
BackToLobby ==
    last = "playAgain" /\ from = "Ended" /\ ~gameStarted /\ ~gameEnded

WinnerIsConnected ==
    (gameEnded /\ ~gameStarted) =>
        /\ winner \in sockets
        /\ Has(score, winner) /\ Get(score, winner) = WINNING_SCORE

\* C29: while the phase is Playing the sessions of slot 0 and slot 1 are ready.
SlotsReadyWhilePlaying ==
    gameStarted =>
        /\ Len(paddles) >= 2
        /\ Get(playersReady, paddles[1].id)
        /\ Get(playersReady, paddles[2].id)

\* C30: the horizontal velocity of the ball is -5, 0 or 5, and 5 in magnitude
\* while the phase is Playing.
HorizontalSpeedKept ==
    /\ ball.vx \in {-SERVE_SPEED, 0, SERVE_SPEED}
    /\ gameStarted => ball.vx # 0

\* C30 witness: the left paddle has just sent the ball back
SentBackByLeftPaddle ==
    /\ last = "tick" /\ gameStarted
    /\ InLeftZone(ball) /\ ball.vx = SERVE_SPEED
====
